---------------------------- MODULE Spec2Model ----------------------------
(***************************************************************************)
(* The SQS subscription of package queue (src/queue/queue.go): Subscribe   *)
(* starts receiveLoop, handleLoop and deleteLoop in an errgroup under one  *)
(* cancellable context; Subscription.Close cancels and waits.              *)
(*                                                                         *)
(* Each goroutine is a process with a program counter; one action is one   *)
(* step between two of its blocking points (a select, an API call, the     *)
(* handler call).  The SQS queue, the serializer and the handler are the   *)
(* environment: what they return is chosen with \E.                        *)
(***************************************************************************)
EXTENDS Integers, Sequences, FiniteSets, TLC

(***************************************************************************)
(* Bounds of the model.                                                    *)
(***************************************************************************)
\* deliveries the queue makes in one run
MaxMsgs == 2
\* ticks of the 15s ticker in one run
MaxTicks == 1
\* capacity of the received and completed channels; the source makes them
\* with capacity 10 (queue.go:74-75), scaled down here so that a full
\* channel is reached within MaxMsgs deliveries
ChanCap == 1
\* batch size that triggers a flush; the source flushes at 10
\* (queue.go:221), scaled down here for the same reason
BatchMax == 2
\* deliveries the queue makes in one run of the acknowledge scenarios, where
\* every message carries an event and the handler accepts it: one more than
\* a full batch
AckMsgs == 3

(***************************************************************************)
(* Program constants.                                                      *)
(***************************************************************************)
\* ReceiveMessageInput.MaxNumberOfMessages
MaxNumberOfMessages == 10
\* for attempt := 1; attempt <= 3; attempt++
MaxAttempts == 3

(***************************************************************************)
(* Errors.  Nil is Go's nil error.                                         *)
(***************************************************************************)
Nil == "nil"
Canceled == "context canceled"
ErrUnmarshal == "unable to unmarshal event"
ErrHandler == "handler error"

(***************************************************************************)
(* Message bodies.  A body is nil or a string; the strings the queue       *)
(* delivers in the model are an encoded event, an encoded payload that is  *)
(* not an event, and a string that is not base64.                          *)
(***************************************************************************)
NilBody == "<nil>"
Bodies == {NilBody, "ZXZlbnQtQQ==", "bm90LWpzb24=", "%%%"}
ErrCorruptInput == "illegal base64 data"
ErrNotAnEvent == "unable to unmarshal record"

\* base64.StdEncoding.DecodeString on the bodies of the model: (data, err)
Base64Decode(b) ==
    CASE b = "ZXZlbnQtQQ==" -> [data |-> "event-A", err |-> Nil]
      [] b = "ZXZlbnQtQg==" -> [data |-> "event-B", err |-> Nil]
      [] b = "bm90LWpzb24=" -> [data |-> "not-json", err |-> Nil]
      [] OTHER -> [data |-> "", err |-> ErrCorruptInput]

\* serializer.UnmarshalEvent on the decoded data: (event, err)
UnmarshalEvent(data) ==
    CASE data = "event-A" -> [event |-> [ID |-> "A"], err |-> Nil]
      [] data = "event-B" -> [event |-> [ID |-> "B"], err |-> Nil]
      [] OTHER -> [event |-> [ID |-> ""], err |-> ErrNotAnEvent]

Digit(d) ==
    CASE d = 0 -> "0" [] d = 1 -> "1" [] d = 2 -> "2" [] d = 3 -> "3"
      [] d = 4 -> "4" [] d = 5 -> "5" [] d = 6 -> "6" [] d = 7 -> "7"
      [] d = 8 -> "8" [] d = 9 -> "9"

RECURSIVE Itoa(_)
\* strconv.Itoa: the decimal digits of n, most significant first
Itoa(n) == IF n < 10 THEN <<Digit(n)>> ELSE Itoa(n \div 10) \o <<Digit(n % 10)>>

NoMsg == [ReceiptHandle |-> 0, Body |-> NilBody]

VARIABLES
    delivered,    \* messages returned by ReceiveMessage so far, in order
    rpc,          \* receiveLoop: "call", "backoff", "send", "check", "done"
    rOut,         \* receiveLoop: output.Messages not yet sent on the channel
    received,     \* channel received
    hpc,          \* handleLoop: "select", "inHandler", "forward", "done"
    hv,           \* handleLoop: v, the message in hand
    completed,    \* channel completed
    dpc,          \* deleteLoop: "select", "delCall", "delPause", "check", "exit", "done"
    dret,         \* deleteLoop: where the running deleteMessages returns to
    attempt,      \* deleteMessages: attempt
    entries,      \* deleteLoop: input.Entries
    ticks,        \* ticks of the ticker so far
    ctxDone,      \* ctx.Done() is closed
    groupErr,     \* errgroup.Group.err
    exitErr,      \* what each stage returned (Nil while it runs)
    closePc,      \* Close: "idle", "waiting", "returned"
    closeResult,  \* what Close returned
    outcome,      \* per receipt handle: how handleMessage ended
    handlerLog,   \* invocations of fn, in order: [rh, event]
    deleteCalls,  \* DeleteMessageBatch calls, in order: [entries, ok]
    \* package s3firehose, Replay and handleObject
    ypc,          \* Replay: "idle", "list", "get", "scan", "inHandler", "done"
    token,        \* Replay: token, 0 for nil
    items,        \* Replay: output.Contents from the current item on
    line,         \* handleObject: line
    listCalls,    \* ListObjectsV2 calls so far
    listed,       \* keys listed so far, in order
    read,         \* keys GetObject was called for, in order
    scanned,      \* lines the objects held, as far as read: [key, line, text]
    events,       \* invocations of fn, in order: [key, line, event]
    scanFailed,   \* a Scan returned false before the end of an object
    replayResult  \* what Replay returned

queueVars == <<delivered, rpc, rOut, received, hpc, hv, completed, dpc, dret,
               attempt, entries, ticks, ctxDone, groupErr, exitErr, closePc,
               closeResult, outcome, handlerLog, deleteCalls>>

replayVars == <<ypc, token, items, line, listCalls, listed, read, scanned,
                events, scanFailed, replayResult>>

vars == <<queueVars, replayVars>>

recvVars == <<delivered, rpc, rOut>>
handleVars == <<hpc, hv, outcome, handlerLog>>
delVars == <<dpc, dret, attempt, entries, ticks, deleteCalls>>
groupVars == <<ctxDone, groupErr, exitErr>>
closeVars == <<closePc, closeResult>>

Handles == 1..(IF AckMsgs > MaxMsgs THEN AckMsgs ELSE MaxMsgs)

\* Replay before it is called
ReplayIdle ==
    /\ ypc = "idle"
    /\ token = 0
    /\ items = <<>>
    /\ line = 0
    /\ listCalls = 0
    /\ listed = <<>>
    /\ read = <<>>
    /\ scanned = <<>>
    /\ events = <<>>
    /\ scanFailed = FALSE
    /\ replayResult = Nil

\* the state Subscribe returns in
QueueInit ==
    /\ delivered = <<>>
    /\ rpc = "call"
    /\ rOut = <<>>
    /\ received = <<>>
    /\ hpc = "select"
    /\ hv = NoMsg
    /\ completed = <<>>
    /\ dpc = "select"
    /\ dret = "select"
    /\ attempt = 0
    /\ entries = <<>>
    /\ ticks = 0
    /\ ctxDone = FALSE
    /\ groupErr = Nil
    /\ exitErr = [recv |-> Nil, handle |-> Nil, del |-> Nil]
    /\ closePc = "idle"
    /\ closeResult = Nil
    /\ outcome = [h \in Handles |-> "none"]
    /\ handlerLog = <<>>
    /\ deleteCalls = <<>>

Init == QueueInit /\ ReplayIdle

\* Mutant of StageReturn: a plain WaitGroup, which stores the first error
\* and cancels nothing
StageReturnNoCancel(stage, err) ==
    /\ exitErr' = [exitErr EXCEPT ![stage] = err]
    /\ groupErr' = IF groupErr = Nil THEN err ELSE groupErr
    /\ UNCHANGED ctxDone

(***************************************************************************)
(* errgroup: a goroutine started with group.Go that returns a non-nil      *)
(* error stores it if it is the first and cancels the group's context.     *)
(***************************************************************************)
StageReturn(stage, err) ==
    /\ exitErr' = [exitErr EXCEPT ![stage] = err]
    /\ groupErr' = IF groupErr = Nil THEN err ELSE groupErr
    /\ ctxDone' = TRUE


Min(a, b) == IF a < b THEN a ELSE b

(***************************************************************************)
(* receiveLoop                                                             *)
(***************************************************************************)
\* At "call" the stage is in api.ReceiveMessageWithContext (line 99).
\* The call returns k >= 1 messages, at most MaxNumberOfMessages; each
\* delivery has a receipt handle of its own
receiveLoop_ReturnMessages ==
    /\ rpc = "call"
    /\ Len(delivered) < MaxMsgs
    /\ \E k \in 1..Min(MaxNumberOfMessages, MaxMsgs - Len(delivered)) :
         \E bodies \in [1..k -> Bodies] :
            LET msgs == [i \in 1..k |->
                           [ReceiptHandle |-> Len(delivered) + i,
                            Body |-> bodies[i]]]
            IN /\ delivered' = delivered \o msgs
               /\ rOut' = msgs
    /\ rpc' = "send"
    /\ UNCHANGED <<received, completed>>
    /\ UNCHANGED <<handleVars, delVars, groupVars, closeVars>>
    /\ UNCHANGED replayVars

\* The same return of api.ReceiveMessageWithContext in the scenarios where
\* every message the queue holds carries an encoded event
receiveLoop_ReturnEvents ==
    /\ rpc = "call"
    /\ Len(delivered) < AckMsgs
    /\ \E k \in 1..Min(MaxNumberOfMessages, AckMsgs - Len(delivered)) :
         LET msgs == [i \in 1..k |->
                        [ReceiptHandle |-> Len(delivered) + i,
                         Body |-> "ZXZlbnQtQQ=="]]
         IN /\ delivered' = delivered \o msgs
            /\ rOut' = msgs
    /\ rpc' = "send"
    /\ UNCHANGED <<received, completed>>
    /\ UNCHANGED <<handleVars, delVars, groupVars, closeVars>>
    /\ UNCHANGED replayVars

\* the long poll ends with no message and no error: the loop over
\* output.Messages is empty and the stage reaches the select of line 126
receiveLoop_ReturnEmpty ==
    /\ rpc = "call"
    /\ rpc' = "check"
    /\ UNCHANGED <<delivered, rOut, received, completed>>
    /\ UNCHANGED <<handleVars, delVars, groupVars, closeVars>>
    /\ UNCHANGED replayVars

\* Mutant of receiveLoop_ReturnError: the error of the call is returned by
\* the stage
receiveLoop_ReturnErrorFatal ==
    /\ rpc = "call"
    /\ rpc' = "done"
    /\ StageReturn("recv", "unable to receive messages")
    /\ UNCHANGED <<delivered, rOut, received, completed>>
    /\ UNCHANGED <<handleVars, delVars, closeVars>>
    /\ UNCHANGED replayVars

\* the call returns an error (a transient failure, or the request was
\* cancelled with the context): the stage reaches the select of line 106
receiveLoop_ReturnError ==
    /\ rpc = "call"
    /\ rpc' = "backoff"
    /\ UNCHANGED <<delivered, rOut, received, completed>>
    /\ UNCHANGED <<handleVars, delVars, groupVars, closeVars>>
    /\ UNCHANGED replayVars

\* line 107: case <-ctx.Done(): return ctx.Err()
receiveLoop_BackoffCancel ==
    /\ rpc = "backoff"
    /\ ctxDone
    /\ rpc' = "done"
    /\ StageReturn("recv", Canceled)
    /\ UNCHANGED <<delivered, rOut, received, completed>>
    /\ UNCHANGED <<handleVars, delVars, closeVars>>
    /\ UNCHANGED replayVars

\* line 109: case <-time.After(15 * time.Second): continue.  The timer is
\* started by the select itself, so once ctx.Done() is closed the select
\* takes that case: the timer case is taken only before the cancellation
receiveLoop_BackoffTimer ==
    /\ rpc = "backoff"
    /\ ~ctxDone
    /\ rpc' = "call"
    /\ UNCHANGED <<delivered, rOut, received, completed>>
    /\ UNCHANGED <<handleVars, delVars, groupVars, closeVars>>
    /\ UNCHANGED replayVars

\* Mutant of receiveLoop_Send: only the first of output.Messages is sent
receiveLoop_SendFirstOnly ==
    /\ rpc = "send"
    /\ Len(received) < ChanCap
    /\ received' = Append(received, Head(rOut))
    /\ rOut' = <<>>
    /\ rpc' = "check"
    /\ UNCHANGED <<delivered, completed>>
    /\ UNCHANGED <<handleVars, delVars, groupVars, closeVars>>
    /\ UNCHANGED replayVars

\* line 122: case receive <- m, for the next m of output.Messages
receiveLoop_Send ==
    /\ rpc = "send"
    /\ Len(received) < ChanCap
    /\ received' = Append(received, Head(rOut))
    /\ rOut' = Tail(rOut)
    /\ rpc' = IF Tail(rOut) = <<>> THEN "check" ELSE "send"
    /\ UNCHANGED <<delivered, completed>>
    /\ UNCHANGED <<handleVars, delVars, groupVars, closeVars>>
    /\ UNCHANGED replayVars

\* Mutant of receiveLoop_SendCancel: a bare "receive <- m", with no
\* ctx.Done() case to leave by
receiveLoop_SendCancelMissing ==
    /\ rpc = "send"
    /\ FALSE
    /\ UNCHANGED vars

\* line 120: case <-ctx.Done(): return ctx.Err()
receiveLoop_SendCancel ==
    /\ rpc = "send"
    /\ ctxDone
    /\ rpc' = "done"
    /\ StageReturn("recv", Canceled)
    /\ UNCHANGED <<delivered, rOut, received, completed>>
    /\ UNCHANGED <<handleVars, delVars, closeVars>>
    /\ UNCHANGED replayVars

\* lines 126-130: select with a default: return ctx.Err() when the context
\* is done, else go round the loop
receiveLoop_Check ==
    /\ rpc = "check"
    /\ IF ctxDone
         THEN /\ rpc' = "done"
              /\ StageReturn("recv", Canceled)
         ELSE /\ rpc' = "call"
              /\ UNCHANGED groupVars
    /\ UNCHANGED <<delivered, rOut, received, completed>>
    /\ UNCHANGED <<handleVars, delVars, closeVars>>
    /\ UNCHANGED replayVars

(***************************************************************************)
(* handleMessage and handleLoop                                            *)
(***************************************************************************)
\* handleMessage up to the call of fn: how it ends for message m without
\* calling fn, or "running" when fn is called
handleMessage(m) ==
    IF m.Body = NilBody THEN "nilbody"
    ELSE IF Base64Decode(m.Body).err /= Nil THEN "badb64"
    ELSE IF UnmarshalEvent(Base64Decode(m.Body).data).err /= Nil THEN "unmarshalErr"
    ELSE "running"

\* line 156: case <-ctx.Done(): return ctx.Err()
handleLoop_SelectCancel ==
    /\ hpc = "select"
    /\ ctxDone
    /\ hpc' = "done"
    /\ StageReturn("handle", Canceled)
    /\ UNCHANGED <<hv, outcome, handlerLog, received, completed>>
    /\ UNCHANGED <<recvVars, delVars, closeVars>>
    /\ UNCHANGED replayVars

\* line 159: case v := <-received, then handleMessage up to the call of fn.
\* A nil body and a body that is not base64 make handleMessage return nil
\* (lines 136, 142): the loop goes on to the send of line 168.  A payload
\* that does not unmarshal makes handleLoop return the error (line 162).
handleLoop_Receive ==
    /\ hpc = "select"
    /\ received /= <<>>
    /\ LET v == Head(received)
           how == handleMessage(v)
       IN /\ hv' = v
          /\ received' = Tail(received)
          /\ outcome' = [outcome EXCEPT ![v.ReceiptHandle] = how]
          /\ CASE how = "running" ->
                    /\ handlerLog' = Append(handlerLog,
                          [rh |-> v.ReceiptHandle,
                           event |-> UnmarshalEvent(Base64Decode(v.Body).data).event])
                    /\ hpc' = "inHandler"
                    /\ UNCHANGED groupVars
               [] how = "unmarshalErr" ->
                    /\ hpc' = "done"
                    /\ StageReturn("handle", ErrUnmarshal)
                    /\ UNCHANGED handlerLog
               [] OTHER ->
                    /\ hpc' = "forward"
                    /\ UNCHANGED <<handlerLog, groupVars>>
    /\ UNCHANGED completed
    /\ UNCHANGED <<recvVars, delVars, closeVars>>
    /\ UNCHANGED replayVars

\* line 150: fn returns nil
handleLoop_HandlerOk ==
    /\ hpc = "inHandler"
    /\ outcome' = [outcome EXCEPT ![hv.ReceiptHandle] = "ok"]
    /\ hpc' = "forward"
    /\ UNCHANGED <<hv, handlerLog, received, completed>>
    /\ UNCHANGED <<recvVars, delVars, groupVars, closeVars>>
    /\ UNCHANGED replayVars

\* Mutant of handleLoop_HandlerError: the error is logged and the loop
\* goes on with the next message
handleLoop_HandlerErrorSwallowed ==
    /\ hpc = "inHandler"
    /\ outcome' = [outcome EXCEPT ![hv.ReceiptHandle] = "handlerErr"]
    /\ hpc' = "select"
    /\ hv' = NoMsg
    /\ UNCHANGED <<handlerLog, received, completed>>
    /\ UNCHANGED <<recvVars, delVars, groupVars, closeVars>>
    /\ UNCHANGED replayVars

\* line 150: fn returns an error, and handleLoop returns it (line 162)
handleLoop_HandlerError ==
    /\ hpc = "inHandler"
    /\ outcome' = [outcome EXCEPT ![hv.ReceiptHandle] = "handlerErr"]
    /\ hpc' = "done"
    /\ StageReturn("handle", ErrHandler)
    /\ UNCHANGED <<hv, handlerLog, received, completed>>
    /\ UNCHANGED <<recvVars, delVars, closeVars>>
    /\ UNCHANGED replayVars

\* line 168: case completed <- v; v goes out of scope
handleLoop_Forward ==
    /\ hpc = "forward"
    /\ Len(completed) < ChanCap
    /\ completed' = Append(completed, hv)
    /\ hpc' = "select"
    /\ hv' = NoMsg
    /\ UNCHANGED <<outcome, handlerLog, received>>
    /\ UNCHANGED <<recvVars, delVars, groupVars, closeVars>>
    /\ UNCHANGED replayVars

\* line 166: case <-ctx.Done(): return ctx.Err()
handleLoop_ForwardCancel ==
    /\ hpc = "forward"
    /\ ctxDone
    /\ hpc' = "done"
    /\ StageReturn("handle", Canceled)
    /\ UNCHANGED <<hv, outcome, handlerLog, received, completed>>
    /\ UNCHANGED <<recvVars, delVars, closeVars>>
    /\ UNCHANGED replayVars

(***************************************************************************)
(* deleteLoop and its closure deleteMessages                               *)
(***************************************************************************)
\* deleteMessages returns to ret; attempt goes out of scope
deleteMessages_Return(ret) ==
    /\ dpc' = ret
    /\ dret' = "select"
    /\ attempt' = 0

\* A call of deleteMessages with input.Entries = es, returning to ret:
\* lines 180-182 return at once on an empty batch, else attempt := 1
deleteMessages_Enter(es, ret) ==
    IF es = <<>>
      THEN deleteMessages_Return(ret)
      ELSE /\ dpc' = "delCall"
           /\ dret' = ret
           /\ attempt' = 1

\* line 185: DeleteMessageBatchWithContext returns no error; lines 195-199:
\* break, input.Entries = nil, return
deleteMessages_CallOk ==
    /\ dpc = "delCall"
    /\ deleteCalls' = Append(deleteCalls, [entries |-> entries, ok |-> TRUE])
    /\ entries' = <<>>
    /\ deleteMessages_Return(dret)
    /\ UNCHANGED <<ticks, received, completed>>
    /\ UNCHANGED <<recvVars, handleVars, groupVars, closeVars>>
    /\ UNCHANGED replayVars

\* line 185: DeleteMessageBatchWithContext returns an error: the select of
\* line 187
deleteMessages_CallFail ==
    /\ dpc = "delCall"
    /\ deleteCalls' = Append(deleteCalls, [entries |-> entries, ok |-> FALSE])
    /\ dpc' = "delPause"
    /\ UNCHANGED <<dret, attempt, entries, ticks, received, completed>>
    /\ UNCHANGED <<recvVars, handleVars, groupVars, closeVars>>
    /\ UNCHANGED replayVars

\* line 188: case <-ctx.Done(): return, which leaves deleteMessages before
\* line 199
deleteMessages_PauseCancel ==
    /\ dpc = "delPause"
    /\ ctxDone
    /\ deleteMessages_Return(dret)
    /\ UNCHANGED <<entries, ticks, deleteCalls, received, completed>>
    /\ UNCHANGED <<recvVars, handleVars, groupVars, closeVars>>
    /\ UNCHANGED replayVars

\* line 190: case <-time.After(15 * time.Second): continue; attempt++, and
\* when attempt <= 3 fails the loop ends and line 199 resets the batch.
\* As in receiveLoop, the timer case is taken only before the cancellation
deleteMessages_PauseTimer ==
    /\ dpc = "delPause"
    /\ ~ctxDone
    /\ IF attempt + 1 <= MaxAttempts
         THEN /\ attempt' = attempt + 1
              /\ dpc' = "delCall"
              /\ UNCHANGED <<dret, entries>>
         ELSE /\ deleteMessages_Return(dret)
              /\ entries' = <<>>
    /\ UNCHANGED <<ticks, deleteCalls, received, completed>>
    /\ UNCHANGED <<recvVars, handleVars, groupVars, closeVars>>
    /\ UNCHANGED replayVars

\* Mutant of deleteLoop_SelectCancel: no deferred deleteMessages
deleteLoop_SelectCancelNoDefer ==
    /\ dpc = "select"
    /\ ctxDone
    /\ dpc' = "exit"
    /\ UNCHANGED <<dret, attempt>>
    /\ UNCHANGED <<entries, ticks, deleteCalls, received, completed>>
    /\ UNCHANGED <<recvVars, handleVars, groupVars, closeVars>>
    /\ UNCHANGED replayVars

\* line 208: case <-ctx.Done(): return ctx.Err(); the deferred
\* deleteMessages (line 201) runs before the stage returns
deleteLoop_SelectCancel ==
    /\ dpc = "select"
    /\ ctxDone
    /\ deleteMessages_Enter(entries, "exit")
    /\ UNCHANGED <<entries, ticks, deleteCalls, received, completed>>
    /\ UNCHANGED <<recvVars, handleVars, groupVars, closeVars>>
    /\ UNCHANGED replayVars

\* line 211: case <-ticker.C: deleteMessages(), then line 221
deleteLoop_Tick ==
    /\ dpc = "select"
    /\ ticks < MaxTicks
    /\ ticks' = ticks + 1
    /\ deleteMessages_Enter(entries, "check")
    /\ UNCHANGED <<entries, deleteCalls, received, completed>>
    /\ UNCHANGED <<recvVars, handleVars, groupVars, closeVars>>
    /\ UNCHANGED replayVars

\* Mutant of deleteLoop_Take: the Id is the length of the batch after the append
deleteLoop_TakeOneBased ==
    /\ dpc = "select"
    /\ completed /= <<>>
    /\ LET v == Head(completed)
           e == [Id |-> Itoa(Len(entries) + 1), ReceiptHandle |-> v.ReceiptHandle]
           es == Append(entries, e)
       IN /\ entries' = es
          /\ completed' = Tail(completed)
          /\ IF Len(es) = BatchMax
               THEN deleteMessages_Enter(es, "select")
               ELSE /\ dpc' = "select"
                    /\ UNCHANGED <<dret, attempt>>
    /\ UNCHANGED <<ticks, deleteCalls, received>>
    /\ UNCHANGED <<recvVars, handleVars, groupVars, closeVars>>
    /\ UNCHANGED replayVars

\* Mutant of deleteLoop_Take: a full batch waits for the ticker
deleteLoop_TakeNoFlush ==
    /\ dpc = "select"
    /\ completed /= <<>>
    /\ LET v == Head(completed)
           e == [Id |-> Itoa(Len(entries)), ReceiptHandle |-> v.ReceiptHandle]
           es == Append(entries, e)
       IN /\ entries' = es
          /\ completed' = Tail(completed)
          /\ IF FALSE
               THEN deleteMessages_Enter(es, "select")
               ELSE /\ dpc' = "select"
                    /\ UNCHANGED <<dret, attempt>>
    /\ UNCHANGED <<ticks, deleteCalls, received>>
    /\ UNCHANGED <<recvVars, handleVars, groupVars, closeVars>>
    /\ UNCHANGED replayVars

\* Mutant of deleteLoop_Take: the entry is put in front of the batch
deleteLoop_TakePrepend ==
    /\ dpc = "select"
    /\ completed /= <<>>
    /\ LET v == Head(completed)
           e == [Id |-> Itoa(Len(entries)), ReceiptHandle |-> v.ReceiptHandle]
           es == <<e>> \o entries
       IN /\ entries' = es
          /\ completed' = Tail(completed)
          /\ IF Len(es) = BatchMax
               THEN deleteMessages_Enter(es, "select")
               ELSE /\ dpc' = "select"
                    /\ UNCHANGED <<dret, attempt>>
    /\ UNCHANGED <<ticks, deleteCalls, received>>
    /\ UNCHANGED <<recvVars, handleVars, groupVars, closeVars>>
    /\ UNCHANGED replayVars

\* lines 214-218: case v := <-completed: append the entry, its Id the
\* length of the batch before the append; then line 221
deleteLoop_Take ==
    /\ dpc = "select"
    /\ completed /= <<>>
    /\ LET v == Head(completed)
           es == Append(entries, [Id |-> Itoa(Len(entries)),
                                  ReceiptHandle |-> v.ReceiptHandle])
       IN /\ entries' = es
          /\ completed' = Tail(completed)
          /\ IF Len(es) = BatchMax
               THEN deleteMessages_Enter(es, "select")
               ELSE /\ dpc' = "select"
                    /\ UNCHANGED <<dret, attempt>>
    /\ UNCHANGED <<ticks, deleteCalls, received>>
    /\ UNCHANGED <<recvVars, handleVars, groupVars, closeVars>>
    /\ UNCHANGED replayVars

\* lines 221-223 after the deleteMessages of a tick has returned
deleteLoop_Check ==
    /\ dpc = "check"
    /\ IF Len(entries) = BatchMax
         THEN deleteMessages_Enter(entries, "select")
         ELSE /\ dpc' = "select"
              /\ UNCHANGED <<dret, attempt>>
    /\ UNCHANGED <<entries, ticks, deleteCalls, received, completed>>
    /\ UNCHANGED <<recvVars, handleVars, groupVars, closeVars>>
    /\ UNCHANGED replayVars

\* the deferred deleteMessages has returned: deleteLoop returns ctx.Err()
deleteLoop_Exit ==
    /\ dpc = "exit"
    /\ dpc' = "done"
    /\ StageReturn("del", Canceled)
    /\ UNCHANGED <<dret, attempt, entries, ticks, deleteCalls, received, completed>>
    /\ UNCHANGED <<recvVars, handleVars, closeVars>>
    /\ UNCHANGED replayVars

(***************************************************************************)
(* Subscription.Close                                                      *)
(***************************************************************************)
\* Mutant of AllExited: Wait returns as soon as one goroutine has returned
AnyExited == rpc = "done" \/ hpc = "done" \/ dpc = "done"

\* group.Wait blocks until the three goroutines have returned
AllExited == rpc = "done" /\ hpc = "done" /\ dpc = "done"

\* line 24: s.cancel()
Close_Cancel ==
    /\ closePc = "idle"
    /\ closePc' = "waiting"
    /\ ctxDone' = TRUE
    /\ UNCHANGED <<groupErr, exitErr, closeResult, received, completed>>
    /\ UNCHANGED <<recvVars, handleVars, delVars>>
    /\ UNCHANGED replayVars

\* line 25: return s.group.Wait(), the error the group stored
Close_Wait ==
    /\ closePc = "waiting"
    /\ AllExited
    /\ closePc' = "returned"
    /\ closeResult' = groupErr
    /\ UNCHANGED <<received, completed>>
    /\ UNCHANGED <<recvVars, handleVars, delVars, groupVars>>
    /\ UNCHANGED replayVars

receiveLoop ==
    \/ receiveLoop_ReturnMessages
    \/ receiveLoop_ReturnEmpty
    \/ receiveLoop_ReturnError
    \/ receiveLoop_BackoffCancel
    \/ receiveLoop_BackoffTimer
    \/ receiveLoop_Send
    \/ receiveLoop_SendCancel
    \/ receiveLoop_Check

handleLoop ==
    \/ handleLoop_SelectCancel
    \/ handleLoop_Receive
    \/ handleLoop_HandlerOk
    \/ handleLoop_HandlerError
    \/ handleLoop_Forward
    \/ handleLoop_ForwardCancel

deleteLoop ==
    \/ deleteLoop_SelectCancel
    \/ deleteLoop_Tick
    \/ deleteLoop_Take
    \/ deleteLoop_Check
    \/ deleteMessages_CallOk
    \/ deleteMessages_CallFail
    \/ deleteMessages_PauseCancel
    \/ deleteMessages_PauseTimer
    \/ deleteLoop_Exit

Close == Close_Cancel \/ Close_Wait

Next == receiveLoop \/ handleLoop \/ deleteLoop \/ Close

Spec == Init /\ [][Next]_vars

(***************************************************************************)
(* Fair scheduling.  Every goroutine that can take a step eventually takes *)
(* one: an API call or a handler call in progress returns, a ready select  *)
(* fires.  Go's select chooses among its ready cases at random, so a case  *)
(* that is ready again and again is eventually chosen: the stage cannot    *)
(* prefer the backoff timer, or the ticker, to ctx.Done() forever.         *)
(***************************************************************************)
Fairness ==
    /\ WF_vars(receiveLoop)
    /\ WF_vars(handleLoop)
    /\ WF_vars(deleteLoop)
    /\ WF_vars(Close_Wait)
    /\ SF_vars(receiveLoop_BackoffCancel)
    /\ SF_vars(deleteLoop_SelectCancel)

LiveSpec == Init /\ [][Next]_vars /\ Fairness

(***************************************************************************)
(* The pipeline in front of a queue whose messages all carry an event, a   *)
(* handler that accepts every event and a ReceiveMessage that does not     *)
(* fail: every delivered message reaches the acknowledge stage unless the  *)
(* subscription is closed first.  DeleteMessageBatch may fail, the ticker  *)
(* ticks and Close may come at any time.                                   *)
(***************************************************************************)
AckNext ==
    \/ receiveLoop_ReturnEvents
    \/ receiveLoop_Send
    \/ receiveLoop_SendCancel
    \/ receiveLoop_Check
    \/ handleLoop_SelectCancel
    \/ handleLoop_Receive
    \/ handleLoop_HandlerOk
    \/ handleLoop_Forward
    \/ handleLoop_ForwardCancel
    \/ deleteLoop
    \/ Close

AckSpec == Init /\ [][AckNext]_vars

(***************************************************************************)
(* Package s3firehose: Replay lists the objects under a prefix page by     *)
(* page and hands every line of every object to the handler.  It is a      *)
(* sequential program of its own; the queue pipeline stands still while it *)
(* runs.  The bucket is the environment: what a page lists, what an object *)
(* holds and whether a call fails is chosen when the program asks.         *)
(***************************************************************************)
\* objects under the prefix
MaxObjects == 2
\* lines of one object
MaxLines == 2
\* ListObjectsV2 calls in one run
MaxPages == 2

ErrList == "unable to list objects"
ErrObject == "unable to process s3 object"

\* lines an object holds in the model: two encoded events, an encoded
\* payload that is not an event, and a line that is not base64
LineTexts == {"ZXZlbnQtQQ==", "ZXZlbnQtQg==", "bm90LWpzb24=", "%%%"}
\* a line the Scanner cannot return: longer than its buffer, or cut short
\* by a read error of the body
Unreadable == "<unreadable>"

ReplayInit ==
    /\ QueueInit
    /\ ypc = "list"
    /\ token = 0
    /\ items = <<>>
    /\ line = 0
    /\ listCalls = 0
    /\ listed = <<>>
    /\ read = <<>>
    /\ scanned = <<>>
    /\ events = <<>>
    /\ scanFailed = FALSE
    /\ replayResult = Nil

\* Replay returns err
Replay_Return(err) ==
    /\ ypc' = "done"
    /\ replayResult' = err
    /\ items' = <<>>
    /\ line' = 0

\* Mutant of Replay_NextItem: the page token is ignored, the replay ends
\* with the first page.
Replay_NextItemFirstPageOnly(its, tok) ==
    IF its /= <<>>
      THEN /\ ypc' = "get"
           /\ items' = its
           /\ line' = 0
           /\ replayResult' = replayResult
      ELSE Replay_Return(Nil)

\* the range loop over output.Contents moves on to its, and after the last
\* item of the page the outer loop lists again or breaks on a nil token
Replay_NextItem(its, tok) ==
    IF its /= <<>>
      THEN /\ ypc' = "get"
           /\ items' = its
           /\ line' = 0
           /\ replayResult' = replayResult
      ELSE IF tok = 0
             THEN Replay_Return(Nil)
             ELSE /\ ypc' = "list"
                  /\ items' = <<>>
                  /\ line' = 0
                  /\ replayResult' = replayResult

\* ListObjectsV2 returns a page of k keys, with or without a continuation
\* token
Replay_ListOk ==
    /\ ypc = "list"
    /\ listCalls < MaxPages
    /\ \E k \in 0..(MaxObjects - Len(listed)), more \in BOOLEAN :
         /\ more => listCalls + 1 < MaxPages
         /\ LET page == [i \in 1..k |-> Len(listed) + i]
                tok == IF more THEN listCalls + 1 ELSE 0
            IN  /\ listed' = listed \o page
                /\ token' = tok
                /\ Replay_NextItem(page, tok)
    /\ listCalls' = listCalls + 1
    /\ UNCHANGED <<read, scanned, events, scanFailed>>
    /\ UNCHANGED queueVars

\* ListObjectsV2 fails
Replay_ListFail ==
    /\ ypc = "list"
    /\ listCalls < MaxPages
    /\ listCalls' = listCalls + 1
    /\ Replay_Return(ErrList)
    /\ UNCHANGED <<token, listed, read, scanned, events, scanFailed>>
    /\ UNCHANGED queueVars

\* GetObject returns the body of the item
handleObject_GetOk ==
    /\ ypc = "get"
    /\ read' = Append(read, Head(items))
    /\ ypc' = "scan"
    /\ line' = 1
    /\ UNCHANGED <<token, items, listCalls, listed, scanned, events,
                   scanFailed, replayResult>>
    /\ UNCHANGED queueVars

\* GetObject fails
handleObject_GetFail ==
    /\ ypc = "get"
    /\ read' = Append(read, Head(items))
    /\ Replay_Return(ErrObject)
    /\ UNCHANGED <<token, listCalls, listed, scanned, events, scanFailed>>
    /\ UNCHANGED queueVars

\* s.Scan() returns true: the line is decoded, deserialized and handed to fn
handleObject_ScanLine ==
    /\ ypc = "scan"
    /\ line <= MaxLines
    /\ \E text \in LineTexts :
         /\ scanned' = Append(scanned, [key |-> Head(items), line |-> line,
                                        text |-> text])
         /\ LET d == Base64Decode(text)
                u == UnmarshalEvent(d.data)
            IN  IF d.err /= Nil \/ u.err /= Nil
                  THEN /\ Replay_Return(ErrObject)
                       /\ UNCHANGED events
                  ELSE /\ events' = Append(events, [key |-> Head(items),
                                            line |-> line, event |-> u.event])
                       /\ ypc' = "inHandler"
                       /\ UNCHANGED <<items, line, replayResult>>
    /\ UNCHANGED <<token, listCalls, listed, read, scanFailed>>
    /\ UNCHANGED queueVars

\* s.Scan() returns false at the end of the body: handleObject returns nil
handleObject_ScanEnd ==
    /\ ypc = "scan"
    /\ Replay_NextItem(Tail(items), token)
    /\ UNCHANGED <<token, listCalls, listed, read, scanned, events,
                   scanFailed>>
    /\ UNCHANGED queueVars

\* s.Scan() returns false because the next line cannot be read; s.Err() is
\* never looked at, handleObject returns nil as at the end of the body
handleObject_ScanStops ==
    /\ ypc = "scan"
    /\ line <= MaxLines
    /\ scanned' = Append(scanned, [key |-> Head(items), line |-> line,
                                   text |-> Unreadable])
    /\ scanFailed' = TRUE
    /\ Replay_NextItem(Tail(items), token)
    /\ UNCHANGED <<token, listCalls, listed, read, events>>
    /\ UNCHANGED queueVars

\* fn returns nil
handleObject_HandlerOk ==
    /\ ypc = "inHandler"
    /\ ypc' = "scan"
    /\ line' = line + 1
    /\ UNCHANGED <<token, items, listCalls, listed, read, scanned, events,
                   scanFailed, replayResult>>
    /\ UNCHANGED queueVars

\* fn returns an error
handleObject_HandlerError ==
    /\ ypc = "inHandler"
    /\ Replay_Return(ErrObject)
    /\ UNCHANGED <<token, listCalls, listed, read, scanned, events,
                   scanFailed>>
    /\ UNCHANGED queueVars

handleObject ==
    \/ handleObject_GetOk
    \/ handleObject_GetFail
    \/ handleObject_ScanLine
    \/ handleObject_ScanEnd
    \/ handleObject_ScanStops
    \/ handleObject_HandlerOk
    \/ handleObject_HandlerError

Replay == Replay_ListOk \/ Replay_ListFail \/ handleObject

ReplaySpec == ReplayInit /\ [][Replay]_vars

(***************************************************************************)
(* What the histories say.                                                 *)
(***************************************************************************)
Range(q) == {q[i] : i \in 1..Len(q)}

\* receipt handles of the messages in a channel
HandlesIn(ch) == {m.ReceiptHandle : m \in Range(ch)}

\* receipt handles of the entries of a batch
HandlesOf(es) == {e.ReceiptHandle : e \in Range(es)}

\* receipt handles that appear in some DeleteMessageBatch call
DeletedHandles == UNION {HandlesOf(c.entries) : c \in Range(deleteCalls)}

\* receipt handles the handler was invoked for
InvokedHandles == {c.rh : c \in Range(handlerLog)}

\* handleMessage returned a non-nil error for the message
Fatal(h) == outcome[h] \in {"unmarshalErr", "handlerErr"}

Stages == {"recv", "handle", "del"}

(***************************************************************************)
(* C1: every receipt handle in an entry of a DeleteMessageBatch call       *)
(* belongs to a message for which the handler was invoked and returned     *)
(* nil before the call.  The code breaks it: handleMessage returns nil for *)
(* a nil body and for a body that is not base64 (lines 136, 142), and      *)
(* handleLoop forwards the message to completed all the same.              *)
(***************************************************************************)
C1_OnlyHandledAreDeleted ==
    \A h \in DeletedHandles : h \in InvokedHandles /\ outcome[h] = "ok"

(***************************************************************************)
(* C2: Close returns nil when every stage exited with the cancellation     *)
(* error only.  The code breaks it: each stage returns ctx.Err(), the      *)
(* group stores the first non-nil error, and Wait returns it.              *)
(***************************************************************************)
C2_CloseNilOnCancellation ==
    (closePc = "returned" /\ \A st \in Stages : exitErr[st] = Canceled)
        => closeResult = Nil

(***************************************************************************)
(* C3: one well-formed message was delivered and handled with success,     *)
(* then Close is called and returns: the adapter has recorded exactly one  *)
(* DeleteMessageBatch call, which references the message's receipt handle. *)
(* Stated for an adapter whose delete calls succeed.  The code breaks it:  *)
(* the selects of lines 165 and 207 may take ctx.Done() while the message  *)
(* waits to be forwarded or taken, and then no call is made.               *)
(***************************************************************************)
C3_OneDeleteAfterClose ==
    (/\ closePc = "returned"
     /\ Len(delivered) = 1
     /\ outcome[1] = "ok"
     /\ \A c \in Range(deleteCalls) : c.ok)
        => /\ Len(deleteCalls) = 1
           /\ HandlesOf(deleteCalls[1].entries) = {1}

(***************************************************************************)
(* C4: once Close has returned the three stages have terminated: no        *)
(* further handler invocation, ReceiveMessage call or DeleteMessageBatch   *)
(* call.                                                                   *)
(***************************************************************************)
C4_QuiescentAfterClose ==
    /\ [](closePc = "returned" => (rpc = "done" /\ hpc = "done" /\ dpc = "done"))
    /\ [][closePc = "returned" =>
            UNCHANGED <<rpc, hpc, dpc, delivered, handlerLog, outcome,
                        deleteCalls, entries, received, completed>>]_vars

C4_Witness ==
    /\ closePc = "returned"
    /\ handlerLog /= <<>>
    /\ deleteCalls /= <<>>

(***************************************************************************)
(* C5: once Close is called it eventually returns, from any state of the   *)
(* pipeline, given that API calls and the handler return.                  *)
(***************************************************************************)
C5_CloseReturns == (closePc = "waiting") ~> (closePc = "returned")

\* Close has returned and the receive stage left by ctx.Done() with a
\* message still to send to a full channel
C5_Witness ==
    /\ closePc = "returned"
    /\ rOut /= <<>>
    /\ Len(received) = ChanCap

(***************************************************************************)
(* C6: a message whose body is not base64 is never passed to the handler   *)
(* and never reaches the acknowledge stage: not on completed, not in the   *)
(* batch, not in a DeleteMessageBatch call.  The code breaks the second    *)
(* part: handleMessage returns nil (line 142) and line 168 forwards it.    *)
(***************************************************************************)
C6_MalformedNotAcknowledged ==
    \A h \in Handles : outcome[h] = "badb64" =>
        /\ h \notin InvokedHandles
        /\ h \notin HandlesIn(completed)
        /\ h \notin HandlesOf(entries)
        /\ h \notin DeletedHandles

(***************************************************************************)
(* C7: after a deserialization error or a handler error for a message,     *)
(* the handler is invoked for no later message, the message is neither     *)
(* forwarded to completed nor in any DeleteMessageBatch call, and Close    *)
(* returns a non-nil error.                                                *)
(***************************************************************************)
C7_FatalHalts ==
    /\ [](\A h \in Handles : Fatal(h) =>
            /\ h \notin HandlesIn(completed)
            /\ h \notin HandlesOf(entries)
            /\ h \notin DeletedHandles
            /\ (closePc = "returned" => closeResult /= Nil))
    /\ [][(\E h \in Handles : Fatal(h)) =>
            (handlerLog' = handlerLog /\ outcome' = outcome)]_vars

\* a message failed while a later one was waiting on received, and Close
\* has returned
C7_Witness ==
    /\ \E h \in Handles : Fatal(h)
    /\ received /= <<>>
    /\ closePc = "returned"

(***************************************************************************)
(* C8: if a stage ended with an error that is not the cancellation error,  *)
(* Close returns that error.  The code breaks it: the group keeps the      *)
(* first error of any kind, so when Close cancels while the failing        *)
(* handler call is running and another stage returns ctx.Err() first,      *)
(* Close returns the cancellation error.                                   *)
(***************************************************************************)
C8_CloseReturnsStageError ==
    closePc = "returned" =>
        \A st \in Stages :
            exitErr[st] \notin {Nil, Canceled} => closeResult = exitErr[st]

(***************************************************************************)
(* C9: when the handle stage exits with a terminal error the shared        *)
(* context is cancelled, whether Close was called or not, and the other    *)
(* two stages eventually exit.                                             *)
(***************************************************************************)
HandleFailed == exitErr["handle"] \notin {Nil, Canceled}

C9_FailFast ==
    /\ [](HandleFailed => ctxDone)
    /\ HandleFailed ~> (rpc = "done" /\ hpc = "done" /\ dpc = "done")

\* the three stages have exited after a failure, and Close was never called
C9_Witness ==
    /\ HandleFailed
    /\ closePc = "idle"
    /\ rpc = "done" /\ dpc = "done"

(***************************************************************************)
(* C10: every well-formed message returned by ReceiveMessage is eventually *)
(* passed to the handler, unless the subscription is cancelled (by Close   *)
(* or by a fatal error); the handler is invoked at most once per delivery, *)
(* with the event decoded from the body.                                   *)
(***************************************************************************)
WellFormed(m) == m.Body = "ZXZlbnQtQQ=="

C10_EventuallyDispatched ==
    /\ \A h \in Handles :
          (h <= Len(delivered) /\ WellFormed(delivered[h]))
              ~> (h \in InvokedHandles \/ ctxDone)
    /\ [](\A i \in 1..Len(handlerLog) :
            /\ \A j \in 1..Len(handlerLog) :
                  handlerLog[i].rh = handlerLog[j].rh => i = j
            /\ handlerLog[i].rh <= Len(delivered)
            /\ WellFormed(delivered[handlerLog[i].rh])
            /\ handlerLog[i].event = [ID |-> "A"])

\* every delivery was well-formed and dispatched, with no cancellation
C10_Witness ==
    /\ Len(delivered) = MaxMsgs
    /\ Len(handlerLog) = MaxMsgs
    /\ ~ctxDone

(***************************************************************************)
(* What the histories of a replay say.                                     *)
(***************************************************************************)
\* the event a line encodes
EventOf(text) ==
    CASE text = "ZXZlbnQtQQ==" -> [ID |-> "A"]
      [] text = "ZXZlbnQtQg==" -> [ID |-> "B"]

\* the line decodes and deserializes
IsEvent(text) == text \in {"ZXZlbnQtQQ==", "ZXZlbnQtQg=="}

\* (object, line) of the entries of a history
Places(h) == [i \in 1..Len(h) |-> <<h[i].key, h[i].line>>]

(***************************************************************************)
(* C11: when Replay has returned nil and every Scan of every body got its  *)
(* line, the listing was followed to its last page, every listed object    *)
(* was read, and the handler was invoked exactly once for every line of    *)
(* every object, with the event the line encodes, objects in list order    *)
(* and lines in line order.                                                *)
(***************************************************************************)
C11_ReplayDispatchesAll ==
    (ypc = "done" /\ replayResult = Nil /\ ~scanFailed) =>
        /\ token = 0
        /\ read = listed
        /\ Places(events) = Places(scanned)
        /\ \A i \in 1..Len(events) :
             /\ events[i].event = EventOf(scanned[i].text)
             /\ \/ events[i].line = 1
                \/ /\ i > 1
                   /\ events[i-1].key = events[i].key
                   /\ events[i-1].line = events[i].line - 1
        /\ \A i, j \in 1..Len(events) :
             i < j => \/ events[i].key < events[j].key
                      \/ /\ events[i].key = events[j].key
                         /\ events[i].line < events[j].line

\* two objects on two pages, two lines each, four invocations
C11_Witness ==
    /\ ypc = "done"
    /\ replayResult = Nil
    /\ ~scanFailed
    /\ listCalls = 2
    /\ Places(events) = <<<<1, 1>>, <<1, 2>>, <<2, 1>>, <<2, 2>>>>

(***************************************************************************)
(* C12: when Replay has returned an error, the handler was invoked for     *)
(* exactly the (object, line) places that precede the failing step: every  *)
(* line the objects held so far, but for a last line that does not decode. *)
(* The code breaks it: handleObject leaves the loop when Scan returns      *)
(* false and never looks at s.Err() (lines 119, 135), so a body that       *)
(* cannot be read to its end is the first failure and the replay goes on   *)
(* with the next object.                                                   *)
(***************************************************************************)
C12_AbortsOnFirstFailure ==
    replayResult /= Nil =>
        /\ ypc = "done"
        /\ LET n == Len(scanned)
               before == IF n > 0 /\ ~IsEvent(scanned[n].text)
                           THEN SubSeq(scanned, 1, n - 1)
                           ELSE scanned
           IN  Places(events) = Places(before)

(***************************************************************************)
(* C13: the deletion batch never holds more than BatchMax entries, and no  *)
(* DeleteMessageBatch call carries more (BatchMax stands for the 10 of     *)
(* line 221).  The code breaks it: a flush of a full batch whose pause is  *)
(* cut short by cancellation returns with the batch still full (line 189), *)
(* the loop takes one more completed message, the length is past the       *)
(* value line 221 compares with, and the deferred flush sends them all.    *)
(***************************************************************************)
C13_BatchAtMostMax ==
    /\ Len(entries) <= BatchMax
    /\ \A c \in Range(deleteCalls) : Len(c.entries) <= BatchMax

(***************************************************************************)
(* C14: when a flush has returned, to the loop after a tick or to the      *)
(* return of the stage, the batch is empty.  The code breaks it:           *)
(* deleteMessages returns from inside the pause on cancellation (line 189) *)
(* and never reaches input.Entries = nil (line 199).                       *)
(***************************************************************************)
C14_BatchEmptyAfterFlush ==
    dpc \in {"check", "exit", "done"} => entries = <<>>

(***************************************************************************)
(* C15: a batch whose DeleteMessageBatch call failed three times in a row  *)
(* is dropped: none of its receipt handles is in a later call.  The code   *)
(* breaks it: cancellation during the pause after the third failure        *)
(* returns with the batch kept, and the deferred flush submits it again.   *)
(***************************************************************************)
C15_DroppedAfterThreeFailures ==
    \A i \in 1..Len(deleteCalls) :
        (/\ i + 2 <= Len(deleteCalls)
         /\ \A k \in i..(i + 2) :
              /\ ~deleteCalls[k].ok
              /\ deleteCalls[k].entries = deleteCalls[i].entries)
        => \A l \in (i + 3)..Len(deleteCalls) :
              HandlesOf(deleteCalls[l].entries)
                  \cap HandlesOf(deleteCalls[i].entries) = {}

(***************************************************************************)
(* What the DeleteMessageBatch calls say.                                  *)
(***************************************************************************)
\* receipt handles of a batch, in order
HandleSeq(es) == [i \in 1..Len(es) |-> es[i].ReceiptHandle]

\* the sequence id the queue API expects at 0-based position n
SeqId(n) ==
    CASE n = 0 -> <<"0">> [] n = 1 -> <<"1">> [] n = 2 -> <<"2">>
      [] n = 3 -> <<"3">> [] n = 4 -> <<"4">> [] n = 5 -> <<"5">>
      [] n = 6 -> <<"6">> [] n = 7 -> <<"7">> [] n = 8 -> <<"8">>
      [] n = 9 -> <<"9">>

RECURSIVE CallHandles(_)
\* receipt handles of the calls cs, one call after the other
CallHandles(cs) ==
    IF cs = <<>> THEN <<>>
    ELSE HandleSeq(Head(cs).entries) \o CallHandles(Tail(cs))

(***************************************************************************)
(* C16: with no cancellation and no failed delete call, the messages that  *)
(* reached the acknowledge stage are, each exactly once and in completion  *)
(* order, in the calls made so far and then in the pending batch; a call   *)
(* has between 1 and BatchMax entries, whose ids are 0, 1, ... by          *)
(* position; and the messages are split between calls only at a flush      *)
(* trigger: a call with fewer than BatchMax entries is a tick's flush.     *)
(* A tick on an empty batch makes no call.                                 *)
(***************************************************************************)
C16_OneCallPerBatch ==
    (~ctxDone /\ \A c \in Range(deleteCalls) : c.ok) =>
        /\ \A c \in Range(deleteCalls) :
             /\ Len(c.entries) \in 1..BatchMax
             /\ \A i \in 1..Len(c.entries) : c.entries[i].Id = SeqId(i - 1)
        /\ \A i \in 1..Len(entries) : entries[i].Id = SeqId(i - 1)
        /\ LET acked == CallHandles(deleteCalls) \o HandleSeq(entries)
           IN  /\ acked = [i \in 1..Len(acked) |-> i]
               /\ \A i \in 1..Len(acked) : outcome[i] = "ok"
        /\ Cardinality({i \in 1..Len(deleteCalls) :
                           Len(deleteCalls[i].entries) < BatchMax}) <= ticks

\* a full batch went out in one call and the next message in a call of its
\* own, with id 0 again
C16_Witness ==
    /\ ~ctxDone
    /\ Len(deleteCalls) = 2
    /\ deleteCalls[1].ok /\ deleteCalls[2].ok
    /\ Len(deleteCalls[1].entries) = BatchMax
    /\ Len(deleteCalls[2].entries) = 1

(***************************************************************************)
(* C17: the step that appends the entry which fills the batch to BatchMax  *)
(* enters the flush at its first attempt; while the call is about to be    *)
(* made the stage takes nothing from completed and waits for no tick; and  *)
(* the next step of the stage is a DeleteMessageBatch call with exactly    *)
(* those entries.                                                          *)
(***************************************************************************)
C17_FlushWhenFull ==
    /\ [][(Len(entries') = Len(entries) + 1 /\ Len(entries') = BatchMax)
            => (dpc' = "delCall" /\ attempt' = 1)]_vars
    /\ [][dpc = "delCall"
            => /\ Len(completed') >= Len(completed)
               /\ ticks' = ticks
               /\ entries' /= entries \/ dpc' /= dpc
                    => /\ Len(deleteCalls') = Len(deleteCalls) + 1
                       /\ deleteCalls'[Len(deleteCalls')].entries = entries]_vars

\* the batch has just been filled, with no tick and no cancellation
C17_Witness ==
    /\ dpc = "delCall"
    /\ attempt = 1
    /\ Len(entries) = BatchMax
    /\ ticks = 0
    /\ ~ctxDone
    /\ deleteCalls = <<>>

(***************************************************************************)
(* C18: the step by which the acknowledge stage leaves its loop on         *)
(* cancellation enters a flush when the batch is non-empty, and when the   *)
(* stage has exited every message it took from completed is in at least    *)
(* one DeleteMessageBatch call.                                            *)
(***************************************************************************)
\* the handle stage has sent the message on completed
Forwarded(h) ==
    /\ outcome[h] \in {"ok", "nilbody", "badb64"}
    /\ hv.ReceiptHandle /= h

\* the acknowledge stage has taken the message and appended its entry
Appended(h) == Forwarded(h) /\ h \notin HandlesIn(completed)

C18_FinalFlush ==
    /\ [](dpc = "done" =>
            \A h \in Handles : Appended(h) => h \in DeletedHandles)
    /\ [][(dpc = "select" /\ dpc' \notin {"select", "check"} /\ ctxDone
           /\ entries = entries' /\ entries /= <<>>)
            => dpc' = "delCall"]_vars

\* the stage has exited and its only call is the deferred flush: no tick
\* came and the batch was not full
C18_Witness ==
    /\ dpc = "done"
    /\ ticks = 0
    /\ Len(deleteCalls) = 1
    /\ Len(deleteCalls[1].entries) < BatchMax

(***************************************************************************)
(* C19: a failed ReceiveMessage call leaves the errgroup untouched and     *)
(* takes the stage to the backoff, from where it goes back to the call or, *)
(* on cancellation, exits; the receive stage exits only when ctx.Done() is *)
(* already closed, and it returns the cancellation error.                  *)
(***************************************************************************)
C19_ReceiveErrorNotFatal ==
    /\ [](exitErr["recv"] \in {Nil, Canceled})
    /\ [](rpc = "done" => (ctxDone /\ exitErr["recv"] = Canceled))
    /\ [][(rpc /= "done" /\ rpc' = "done") => ctxDone]_vars
    /\ [][(rpc = "call" /\ rpc' = "backoff") => UNCHANGED groupVars]_vars
    /\ [][(rpc = "backoff" /\ rpc' /= "backoff")
            => (rpc' = "call" \/ (rpc' = "done" /\ ctxDone))]_vars

\* a call has failed after an earlier one delivered, and nothing is
\* cancelled
C19_Witness ==
    /\ rpc = "backoff"
    /\ Len(delivered) > 0
    /\ ~ctxDone
    /\ groupErr = Nil

=============================================================================
